---- MODULE Spec2Model ----
(***************************************************************************)
(* Model of the analytics ingestion pipeline: checkpoint-tracked file      *)
(* discovery, raw ingestion into SQLite, normalization into users /        *)
(* documents / events, run either by pipeline_ingest.main() or by the      *)
(* four-task Airflow DAG of dags/analytics_pipeline_steps.py.              *)
(***************************************************************************)
EXTENDS Integers, Sequences, FiniteSets, TLC

\* ------------------------------------------------------------------------
\* Bounds of the model
\* ------------------------------------------------------------------------
\* number of pipeline runs started in one behaviour
MaxRuns == 2
\* timestamps are 1..MaxTs, ordered as their strings are by SQLite
MaxTs == 2

\* ------------------------------------------------------------------------
\* Sequence helpers
\* ------------------------------------------------------------------------
Range(s) == {s[i] : i \in 1..Len(s)}

\* ------------------------------------------------------------------------
\* Values
\* ------------------------------------------------------------------------
\* Python None / JSON null / absent key / SQL NULL, for string-valued fields
Null == "NULL"
\* SQL NULL / Python None for a timestamp
NullTs == 0
\* a timestamp field that is present with a falsy value: "", 0, false
EmptyTs == -1

\* str.strip() on the strings of the model
Strip(s) ==
  CASE s = " " -> ""
    [] s = " e1 " -> "e1"
    [] OTHER -> s

\* str.lower() on the strings of the model
Lower(s) ==
  CASE s = "Edit" -> "edit"
    [] s = "Comment" -> "comment"
    [] OTHER -> s

\* Python truthiness of a JSON string-or-null value
Truthy(v) == v # Null /\ v # ""

\* Python `a or b or c` over the values of the aliases, in order
FirstTruthy(vs) ==
  IF \E i \in 1..Len(vs) : Truthy(vs[i])
  THEN vs[CHOOSE i \in 1..Len(vs) : Truthy(vs[i]) /\ \A j \in 1..(i-1) : ~Truthy(vs[j])]
  ELSE vs[Len(vs)]

\* SQL COALESCE over json_extract results, in order
Coalesce(vs) ==
  IF \E i \in 1..Len(vs) : vs[i] # Null
  THEN vs[CHOOSE i \in 1..Len(vs) : vs[i] # Null /\ \A j \in 1..(i-1) : vs[j] = Null]
  ELSE Null

\* mutant: the value is not stripped
to_str_no_strip(v) ==
  IF v = Null \/ v = "" THEN Null ELSE v

to_str(v) ==
  IF v = Null THEN Null
  ELSE IF Strip(v) = "" THEN Null ELSE Strip(v)

\* Python truthiness of a timestamp field: absent, null, "", 0 and false are falsy
TruthyTs(v) == v # NullTs /\ v # EmptyTs

\* mutant: `if k in event and event[k] is not None`, the first field present
parse_timestamp_candidates_present(ev) ==
  LET ks == <<ev.timestamp, ev.event_timestamp, ev.ts, ev.time>> IN
  IF \E i \in 1..4 : ks[i] # NullTs
  THEN ks[CHOOSE i \in 1..4 : ks[i] # NullTs /\ \A j \in 1..(i-1) : ks[j] = NullTs]
  ELSE NullTs

\* `if event.get(k): return str(event[k])` over the aliases in order
parse_timestamp_candidates(ev) ==
  LET ks == <<ev.timestamp, ev.event_timestamp, ev.ts, ev.time>> IN
  IF \E i \in 1..4 : TruthyTs(ks[i])
  THEN ks[CHOOSE i \in 1..4 : TruthyTs(ks[i]) /\ \A j \in 1..(i-1) : ~TruthyTs(ks[j])]
  ELSE NullTs

\* ------------------------------------------------------------------------
\* Input records (parsed JSON objects) and files
\* ------------------------------------------------------------------------
BaseRecord ==
  [is_dict |-> TRUE,
   event_id |-> Null, event_type |-> Null,
   timestamp |-> NullTs, event_timestamp |-> NullTs, ts |-> NullTs, time |-> NullTs,
   user_id |-> Null, userId |-> Null, uid |-> Null,
   document_id |-> Null, documentId |-> Null, doc_id |-> Null,
   document_title |-> Null, title |-> Null,
   document_owner_user_id |-> Null, owner_user_id |-> Null, ownerUserId |-> Null]

\* a JSON array element that is not an object
NonDict == [BaseRecord EXCEPT !.is_dict = FALSE]

\* an event of a user with no document
UserEvent(e, u, t) ==
  [BaseRecord EXCEPT !.event_id = e, !.event_type = "Edit", !.timestamp = t, !.user_id = u]

\* an event on document d1 whose payload names the document's owner
DocEvent(e, u, o, t) ==
  [BaseRecord EXCEPT !.event_id = e, !.event_type = "Comment", !.ts = t,
                     !.userId = u, !.doc_id = "d1",
                     !.owner_user_id = o, !.document_title = "T" ]

Records ==
  {UserEvent("e1", "u1", t) : t \in 0..MaxTs}
  \cup {DocEvent("e2", u, o, MaxTs) : u \in {Null, "u1"}, o \in {Null, "u1", "u2"}}
  \cup {[BaseRecord EXCEPT !.event_id = " ", !.event_type = "Edit"],
        [BaseRecord EXCEPT !.event_id = " e1 ", !.user_id = "u1"]}

\* content of a file as json.loads sees it
FileText(kind, items) == [kind |-> kind, items |-> items]

\* a few contents for the file whose name holds a line feed
SmallContents ==
  {FileText("invalid", <<>>),
   FileText("object", <<UserEvent("e1", "u1", 1)>>),
   FileText("object", <<DocEvent("e2", "u1", "u1", MaxTs)>>)}

Contents ==
  SmallContents
  \cup {FileText("empty", <<>>), FileText("scalar", <<>>)}
  \cup {FileText("object", <<r>>) : r \in Records}
  \cup {FileText("array", <<NonDict, UserEvent("e1", "u1", 1), UserEvent("e1", "u1", MaxTs)>>),
        FileText("array", <<DocEvent("e1", "u1", "u2", 1), DocEvent("e2", "u1", "u1", MaxTs)>>),
        FileText("array", <<DocEvent("e1", Null, "u1", 1), UserEvent("e2", "u1", 1)>>)}

\* The paths rglob("*.json") can list under EVENTS_DIR, in sorted() order.
\* c.json is a symbolic link to a.json; the name of nl.json contains a line
\* feed between "n" and "l.json".
ListedPaths == <<"a.json", "b.json", "c.json", "nl.json">>

\* str(p.resolve()), as the sequence of its lines
Resolve(p) ==
  CASE p = "a.json" -> <<"/r/a.json">>
    [] p = "b.json" -> <<"/r/b.json">>
    [] p = "c.json" -> <<"/r/a.json">>
    [] p = "nl.json" -> <<"/r/n", "l.json">>

\* records that probe the admission rules and the timestamp aliases: every
\* shape of event_id and event_type, every value of the four aliases
ProbeRecords ==
  {[BaseRecord EXCEPT !.event_id = id, !.event_type = ty,
                      !.timestamp = t1, !.event_timestamp = t2, !.ts = t3, !.time = t4,
                      !.uid = "u2", !.documentId = "d1"] :
     id \in {Null, "", " ", "e1", " e1 "}, ty \in {Null, "", " ", "Edit"},
     t1 \in {NullTs, EmptyTs} \cup 1..MaxTs, t2 \in {NullTs, EmptyTs} \cup 1..MaxTs,
     t3 \in {NullTs, EmptyTs} \cup 1..MaxTs, t4 \in {NullTs, EmptyTs} \cup 1..MaxTs}

\* the record that follows the probe in its file
Good == UserEvent("e2", "u1", 1)

\* roots with one file, a.json, holding a probe record followed by Good
RecordFileSystems ==
  {[p \in {"a.json"} |-> FileText("array", <<r, Good>>)] : r \in ProbeRecords}

\* contents of a.json in the roots into which b.json is dropped later
EarlyContents ==
  SmallContents
  \cup {FileText("array", <<DocEvent("e1", Null, "u1", 1), UserEvent("e2", "u1", 1)>>)}

\* contents of the file b.json when it is dropped into the root between runs
LateContents ==
  {FileText("object", <<UserEvent("e3", "u1", MaxTs)>>),
   FileText("object", <<DocEvent("e3", "u1", "u1", 1)>>),
   FileText("object", <<DocEvent("e3", "u1", "u2", MaxTs)>>),
   FileText("array", <<UserEvent("e1", "u1", MaxTs), UserEvent("e3", Null, 1)>>)}

\* An ingestion root: the listed paths and the content read through each
FileSystems ==
  {[p \in {"a.json"} |-> ca] : ca \in Contents}
  \cup {[p \in {"a.json", "b.json"} |-> IF p = "a.json" THEN ca ELSE cb] :
          ca \in Contents, cb \in Contents}
  \cup {[p \in {"a.json", "c.json"} |-> ca] : ca \in Contents}
  \cup {[p \in {"a.json", "nl.json"} |-> IF p = "a.json" THEN ca ELSE cb] :
          ca \in Contents, cb \in SmallContents}


RECURSIVE SelectListed(_, _)
\* the subsequence of ListedPaths (from position i) whose elements are in S
SelectListed(i, S) ==
  IF i > Len(ListedPaths) THEN <<>>
  ELSE IF ListedPaths[i] \in S THEN <<ListedPaths[i]>> \o SelectListed(i + 1, S)
       ELSE SelectListed(i + 1, S)

\* ------------------------------------------------------------------------
\* Checkpoint file: a sequence of lines
\* ------------------------------------------------------------------------
\* The file is the sequence of the strings written to it, each followed by a
\* line feed; splitlines() yields every line of every one of them.
load_checkpoint(cp) == UNION {Range(cp[i]) : i \in 1..Len(cp)}

\* f.write(p + "\n") for one path
WritePath(cp, key) == Append(cp, key)

RECURSIVE save_checkpoint(_, _)
save_checkpoint(cp, processed_paths) ==
  IF processed_paths = <<>> THEN cp
  ELSE save_checkpoint(WritePath(cp, Head(processed_paths)), Tail(processed_paths))

\* str(p.resolve()) not in already
NotInAlready(p, already) == ~(Len(Resolve(p)) = 1 /\ Resolve(p)[1] \in already)

find_new_files(root, cp) ==
  LET already == load_checkpoint(cp)
      all_files == SelectListed(1, DOMAIN root)
  IN SelectSeq(all_files, LAMBDA p : NotInAlready(p, already))

\* ------------------------------------------------------------------------
\* Event reader
\* ------------------------------------------------------------------------
read_event_file(text) ==
  CASE text.kind = "empty" -> <<>>
    [] text.kind = "object" -> text.items
    [] text.kind = "array" -> SelectSeq(text.items, LAMBDA x : x.is_dict)
    [] text.kind = "scalar" -> <<>>
    [] text.kind = "invalid" -> <<>>

\* ------------------------------------------------------------------------
\* Store: the four tables of init_schema, and SQLite's AUTOINCREMENT counter
\* ------------------------------------------------------------------------
\* raw_events is a sequence in rowid (insertion) order; the others are sets
EmptyStore ==
  [raw_events |-> <<>>, users |-> {}, documents |-> {}, events |-> {}, seq |-> 0]

\* mutant: the PRAGMA is not issued, foreign keys are not enforced
foreign_keys_off == FALSE

\* PRAGMA foreign_keys = ON
foreign_keys == TRUE

RawIds(t) == {t.raw_events[i].event_id : i \in 1..Len(t.raw_events)}
UserIds(t) == {u.user_id : u \in t.users}
DocumentIds(t) == {d.document_id : d \in t.documents}
EventIds(t) == {e.event_id : e \in t.events}

\* FOREIGN KEY (owner_user_id) REFERENCES users(user_id)
DocumentFKOk(t) ==
  \A d \in t.documents : d.owner_user_id = Null \/ d.owner_user_id \in UserIds(t)

\* FOREIGN KEY (user_id) REFERENCES users, (document_id) REFERENCES documents
EventFKOk(t) ==
  \A e \in t.events :
    /\ e.user_id = Null \/ e.user_id \in UserIds(t)
    /\ e.document_id = Null \/ e.document_id \in DocumentIds(t)

\* a statement's outcome: the tables, or sqlite3.IntegrityError
Ok(t) == [ok |-> TRUE, t |-> t]
IntegrityError(t) == [ok |-> FALSE, t |-> t]

\* ------------------------------------------------------------------------
\* Raw ingestion
\* ------------------------------------------------------------------------
\* mutant: a plain insert into a table without the primary key
InsertRaw_NoKey(t, row) == [t EXCEPT !.raw_events = Append(@, row)]

\* mutant: INSERT OR REPLACE, the conflicting row is deleted and the new row
\* is inserted at the end
InsertOrReplaceRaw(t, row) ==
  [t EXCEPT !.raw_events =
     Append(SelectSeq(@, LAMBDA r : r.event_id # row.event_id), row)]

\* INSERT OR IGNORE INTO raw_events: the PRIMARY KEY(event_id) conflict is ignored
InsertOrIgnoreRaw(t, row) ==
  IF row.event_id \in RawIds(t) THEN t
  ELSE [t EXCEPT !.raw_events = Append(@, row)]

\* one iteration of `for ev in events`; st = [t, inserted, skipped_id, skipped_type]
IngestRecord(st, ev, source_file) ==
  LET event_id == to_str(ev.event_id)
      event_type == to_str(ev.event_type)
  IN
  IF event_id = Null THEN [st EXCEPT !.skipped_missing_id = @ + 1]
  ELSE IF event_type = Null THEN [st EXCEPT !.skipped_missing_type = @ + 1]
  ELSE
    LET row == [event_id |-> event_id,
                event_type |-> Lower(Strip(event_type)),
                event_ts |-> parse_timestamp_candidates(ev),
                user_id |-> to_str(FirstTruthy(<<ev.user_id, ev.userId, ev.uid>>)),
                document_id |-> to_str(FirstTruthy(<<ev.document_id, ev.documentId, ev.doc_id>>)),
                source_file |-> source_file,
                raw_json |-> ev]
    IN [st EXCEPT !.t = InsertOrIgnoreRaw(@, row), !.inserted_rows = @ + 1]

RECURSIVE IngestRecords(_, _, _)
IngestRecords(st, evs, source_file) ==
  IF evs = <<>> THEN st
  ELSE IngestRecords(IngestRecord(st, Head(evs), source_file), Tail(evs), source_file)

\* the body of `for file_path in new_files`, for one file
IngestFile(t, root, file_path) ==
  IngestRecords([t |-> t, inserted_rows |-> 0, skipped_missing_id |-> 0,
                 skipped_missing_type |-> 0],
                read_event_file(root[file_path]), Resolve(file_path))

RECURSIVE ingest_raw(_, _, _)
\* returns the tables, the processed paths and the per-file counters
ingest_raw(t, root, new_files) ==
  IF new_files = <<>> THEN [t |-> t, processed |-> <<>>, counters |-> <<>>]
  ELSE
    LET st == IngestFile(t, root, Head(new_files))
        rest == ingest_raw(st.t, root, Tail(new_files))
    IN [t |-> rest.t,
        processed |-> <<Resolve(Head(new_files))>> \o rest.processed,
        counters |-> <<[inserted_rows |-> st.inserted_rows,
                        skipped_missing_id |-> st.skipped_missing_id,
                        skipped_missing_type |-> st.skipped_missing_type]>>
                     \o rest.counters]

\* ------------------------------------------------------------------------
\* Normalization
\* ------------------------------------------------------------------------
\* SQL MIN / MAX over a column: NULLs are ignored, NULL when nothing is left
SqlMin(S) == IF S \ {NullTs} = {} THEN NullTs
             ELSE CHOOSE x \in S \ {NullTs} : \A y \in S \ {NullTs} : x <= y
SqlMax(S) == IF S \ {NullTs} = {} THEN NullTs
             ELSE CHOOSE x \in S \ {NullTs} : \A y \in S \ {NullTs} : x >= y

\* rowids of the raw_events rows of one user / one document
UserGroup(t, u) == {i \in 1..Len(t.raw_events) : t.raw_events[i].user_id = u}
DocGroup(t, d) == {i \in 1..Len(t.raw_events) : t.raw_events[i].document_id = d}
TsOf(t, G) == {t.raw_events[i].event_ts : i \in G}

RawUserIds(t) == {t.raw_events[i].user_id : i \in 1..Len(t.raw_events)} \ {Null}
RawDocumentIds(t) == {t.raw_events[i].document_id : i \in 1..Len(t.raw_events)} \ {Null}

\* mutant: the UPDATE that refreshes first_seen_ts and last_seen_ts is left out
transform_users_insert_only(t) ==
  Ok([t EXCEPT !.users =
        @ \cup {[user_id |-> u,
                 first_seen_ts |-> SqlMin(TsOf(t, UserGroup(t, u))),
                 last_seen_ts |-> SqlMax(TsOf(t, UserGroup(t, u)))] :
                u \in RawUserIds(t) \ UserIds(t)}])

transform_users(t) ==
  LET \* INSERT OR IGNORE INTO users ... GROUP BY user_id
      inserted ==
        t.users \cup {[user_id |-> u,
                       first_seen_ts |-> SqlMin(TsOf(t, UserGroup(t, u))),
                       last_seen_ts |-> SqlMax(TsOf(t, UserGroup(t, u)))] :
                      u \in RawUserIds(t) \ UserIds(t)}
      \* UPDATE users SET first_seen_ts, last_seen_ts WHERE user_id IN (...)
      updated ==
        {IF u.user_id \in RawUserIds(t)
         THEN [u EXCEPT !.first_seen_ts = SqlMin(TsOf(t, UserGroup(t, u.user_id))),
                        !.last_seen_ts = SqlMax(TsOf(t, UserGroup(t, u.user_id)))]
         ELSE u : u \in inserted}
  IN Ok([t EXCEPT !.users = updated])

\* The SELECT of transform_documents has the bare columns title and
\* owner_user_id next to MIN(event_ts) and MAX(event_ts): SQLite takes them
\* from one of the rows holding the minimum or the maximum, from any row of
\* the group when every event_ts is NULL.
BareRows(t, d) ==
  LET G == DocGroup(t, d)
      lo == SqlMin(TsOf(t, G))
      hi == SqlMax(TsOf(t, G))
  IN IF lo = NullTs THEN G
     ELSE {i \in G : t.raw_events[i].event_ts \in {lo, hi}}

\* the choices of a bare row for every document of raw_events
BareChoices(t) == {f \in [RawDocumentIds(t) -> 1..Len(t.raw_events)] :
                     \A d \in RawDocumentIds(t) : f[d] \in BareRows(t, d)}

\* mutant: INSERT OR REPLACE, every document row is rebuilt on every run
transform_documents_replace(t, bare) ==
  LET row(d) ==
        LET j == t.raw_events[bare[d]].raw_json IN
        [document_id |-> d,
         title |-> Coalesce(<<j.document_title, j.title>>),
         owner_user_id |-> Coalesce(<<j.document_owner_user_id, j.owner_user_id,
                                      j.ownerUserId>>),
         created_ts |-> SqlMin(TsOf(t, DocGroup(t, d))),
         last_seen_ts |-> SqlMax(TsOf(t, DocGroup(t, d)))]
      replaced == [t EXCEPT !.documents =
                     {d \in @ : d.document_id \notin RawDocumentIds(t)}
                     \cup {row(d) : d \in RawDocumentIds(t)}]
  IN IF foreign_keys /\ ~DocumentFKOk(replaced) THEN IntegrityError(t)
     ELSE Ok(replaced)

\* mutant: the UPDATE refreshes created_ts along with last_seen_ts
transform_documents_refresh_created(t, bare) ==
  LET row(d) ==
        LET j == t.raw_events[bare[d]].raw_json IN
        [document_id |-> d,
         title |-> Coalesce(<<j.document_title, j.title>>),
         owner_user_id |-> Coalesce(<<j.document_owner_user_id, j.owner_user_id,
                                      j.ownerUserId>>),
         created_ts |-> SqlMin(TsOf(t, DocGroup(t, d))),
         last_seen_ts |-> SqlMax(TsOf(t, DocGroup(t, d)))]
      inserted == [t EXCEPT !.documents =
                     @ \cup {row(d) : d \in RawDocumentIds(t) \ DocumentIds(t)}]
      updated == [inserted EXCEPT !.documents =
                    {IF d.document_id \in RawDocumentIds(t)
                     THEN [d EXCEPT !.created_ts =
                             SqlMin(TsOf(t, DocGroup(t, d.document_id))),
                                    !.last_seen_ts =
                             SqlMax(TsOf(t, DocGroup(t, d.document_id)))]
                     ELSE d : d \in @}]
  IN IF foreign_keys /\ ~DocumentFKOk(inserted) THEN IntegrityError(t)
     ELSE Ok(updated)

\* mutant: the UPDATE that refreshes last_seen_ts is left out
transform_documents_insert_only(t, bare) ==
  LET row(d) ==
        LET j == t.raw_events[bare[d]].raw_json IN
        [document_id |-> d,
         title |-> Coalesce(<<j.document_title, j.title>>),
         owner_user_id |-> Coalesce(<<j.document_owner_user_id, j.owner_user_id,
                                      j.ownerUserId>>),
         created_ts |-> SqlMin(TsOf(t, DocGroup(t, d))),
         last_seen_ts |-> SqlMax(TsOf(t, DocGroup(t, d)))]
      inserted == [t EXCEPT !.documents =
                     @ \cup {row(d) : d \in RawDocumentIds(t) \ DocumentIds(t)}]
  IN IF foreign_keys /\ ~DocumentFKOk(inserted) THEN IntegrityError(t)
     ELSE Ok(inserted)

transform_documents(t, bare) ==
  LET \* INSERT OR IGNORE INTO documents ... GROUP BY document_id
      row(d) ==
        LET j == t.raw_events[bare[d]].raw_json IN
        [document_id |-> d,
         title |-> Coalesce(<<j.document_title, j.title>>),
         owner_user_id |-> Coalesce(<<j.document_owner_user_id, j.owner_user_id,
                                      j.ownerUserId>>),
         created_ts |-> SqlMin(TsOf(t, DocGroup(t, d))),
         last_seen_ts |-> SqlMax(TsOf(t, DocGroup(t, d)))]
      inserted == [t EXCEPT !.documents =
                     @ \cup {row(d) : d \in RawDocumentIds(t) \ DocumentIds(t)}]
      \* UPDATE documents SET last_seen_ts WHERE document_id IN (...)
      updated == [inserted EXCEPT !.documents =
                    {IF d.document_id \in RawDocumentIds(t)
                     THEN [d EXCEPT !.last_seen_ts =
                             SqlMax(TsOf(t, DocGroup(t, d.document_id)))]
                     ELSE d : d \in @}]
  IN IF foreign_keys /\ ~DocumentFKOk(inserted) THEN IntegrityError(t)
     ELSE Ok(updated)

RECURSIVE InsertEventsOrReplace(_, _)
\* mutant: INSERT OR REPLACE, a conflicting events row is deleted and the
\* selected row is inserted under a new event_pk
InsertEventsOrReplace(t, i) ==
  IF i > Len(t.raw_events) THEN t
  ELSE
    LET r == t.raw_events[i] IN
    IF r.event_type = Null THEN InsertEventsOrReplace(t, i + 1)
    ELSE InsertEventsOrReplace(
           [t EXCEPT !.seq = @ + 1,
                     !.events = {e \in @ : e.event_id # r.event_id}
                                \cup {[event_pk |-> t.seq + 1,
                                       event_id |-> r.event_id,
                                       event_type |-> r.event_type,
                                       event_ts |-> r.event_ts,
                                       user_id |-> r.user_id,
                                       document_id |-> r.document_id,
                                       raw_json |-> r.raw_json]}],
           i + 1)

RECURSIVE InsertEvents(_, _)
\* INSERT OR IGNORE INTO events ... SELECT ... FROM raw_events r, row by row
\* from rowid i on: every selected row takes a new event_pk, and the insert
\* is ignored when UNIQUE(event_id) conflicts
InsertEvents(t, i) ==
  IF i > Len(t.raw_events) THEN t
  ELSE
    LET r == t.raw_events[i] IN
    IF r.event_type = Null THEN InsertEvents(t, i + 1)
    ELSE IF r.event_id \in EventIds(t)
         THEN InsertEvents([t EXCEPT !.seq = @ + 1], i + 1)
         ELSE InsertEvents(
                [t EXCEPT !.seq = @ + 1,
                          !.events = @ \cup {[event_pk |-> t.seq + 1,
                                              event_id |-> r.event_id,
                                              event_type |-> r.event_type,
                                              event_ts |-> r.event_ts,
                                              user_id |-> r.user_id,
                                              document_id |-> r.document_id,
                                              raw_json |-> r.raw_json]}],
                i + 1)

\* mutant: the SELECT loses the first row of raw_events
transform_events_skip_first(t) ==
  LET inserted == InsertEvents(t, 2) IN
  IF foreign_keys /\ ~EventFKOk(inserted) THEN IntegrityError(t)
  ELSE Ok(inserted)

transform_events(t) ==
  LET inserted == InsertEvents(t, 1) IN
  IF foreign_keys /\ ~EventFKOk(inserted) THEN IntegrityError(t)
  ELSE Ok(inserted)

\* mutant: only the events pass is run, on a connection that does not
\* enforce foreign keys
run_transformations_events_only(t, bare) == Ok(InsertEvents(t, 1))

\* the three passes in order; the first statement that raises ends the call
run_transformations(t, bare) ==
  LET u == transform_users(t) IN
  IF ~u.ok THEN u
  ELSE LET d == transform_documents(u.t, bare) IN
       IF ~d.ok THEN d
       ELSE transform_events(d.t)

\* ------------------------------------------------------------------------
\* State
\* ------------------------------------------------------------------------
VARIABLES
  root,            \* the ingestion root (EVENTS_DIR): listed path -> content
  incoming,        \* the file that will be dropped into the root later, if any
  checkpoint,      \* the checkpoint file: the path strings written, in order
  db,              \* the committed content of the SQLite database
  tx,              \* the tables as seen inside the connection's open transaction
  pc,              \* position of the current run
  mode,            \* "main" or "dag": how the current (or last) run is executed
  new_files,       \* result of find_new_files (local of main / XCom new_files)
  processed_paths, \* result of ingest_raw (local of main / XCom processed_paths)
  pending,         \* paths save_checkpoint has still to write
  try_number,      \* attempt of the current DAG task
  counters,        \* per-file counters printed by the last ingest_raw
  runs,            \* runs started so far
  pre,             \* history: db and checkpoint when the current run started
  outcome,         \* history: how the last run over the root as it is now
                   \* ended: "none", "running", "ok", "failed" (ingestion or
                   \* normalization raised), "checkpoint_failed", "crashed"
  crashed,         \* history: the last run that stopped between commit and the
                   \* end of the checkpoint append, the root unchanged since
  recovering       \* history: the current (or last) run follows such a stop

vars == <<root, incoming, checkpoint, db, tx, pc, mode, new_files, processed_paths, pending,
          try_number, counters, runs, pre, outcome, crashed, recovering>>

\* default_args["retries"]
retries == 1

NoCrash == [active |-> FALSE, db |-> EmptyStore, written |-> <<>>, processed |-> <<>>]

\* no file is on its way
NoIncoming == [p \in {} |-> FileText("empty", <<>>)]

\* everything but the files: no checkpoint file, no database file, no run yet
InitRun ==
  /\ checkpoint = <<>>
  /\ db = EmptyStore
  /\ tx = EmptyStore
  /\ pc = "idle"
  /\ mode = "none"
  /\ new_files = <<>>
  /\ processed_paths = <<>>
  /\ pending = <<>>
  /\ try_number = 1
  /\ counters = <<>>
  /\ runs = 0
  /\ pre = [db |-> EmptyStore, checkpoint |-> <<>>]
  /\ outcome = "none"
  /\ crashed = NoCrash
  /\ recovering = FALSE

Init ==
  /\ \/ /\ root \in FileSystems
        /\ incoming = NoIncoming
     \/ /\ root \in {[p \in {"a.json"} |-> ca] : ca \in EarlyContents}
        /\ incoming \in {[p \in {"b.json"} |-> cb] : cb \in LateContents}
  /\ InitRun

\* history bookkeeping shared by the two ways to start a run
BeginRun(m) ==
  /\ pc = "idle"
  /\ runs < MaxRuns
  /\ runs' = runs + 1
  /\ mode' = m
  /\ pre' = [db |-> db, checkpoint |-> checkpoint]
  /\ recovering' = crashed.active
  /\ crashed' = [crashed EXCEPT !.active = FALSE]

\* the run ends: by return, by a propagated exception, or by a kill
EndRun(o) ==
  /\ pc' = "idle"
  /\ outcome' = o
  /\ tx' = db

\* ------------------------------------------------------------------------
\* pipeline_ingest.main()
\* ------------------------------------------------------------------------
\* find_new_files, the early return, connect_db, init_schema, BEGIN
MainStart ==
  /\ BeginRun("main")
  /\ new_files' = find_new_files(root, checkpoint)
  /\ IF new_files' = <<>>
     THEN /\ EndRun("ok")
          /\ UNCHANGED db
     ELSE /\ pc' = "m_ingest"
          /\ outcome' = "running"
          /\ tx' = db
          /\ UNCHANGED db
  /\ UNCHANGED <<root, incoming, checkpoint, processed_paths, pending, try_number, counters>>

\* processed_paths = ingest_raw(con, new_files)
MainIngest ==
  /\ pc = "m_ingest"
  /\ LET r == ingest_raw(tx, root, new_files) IN
       /\ tx' = r.t
       /\ processed_paths' = r.processed
       /\ counters' = r.counters
  /\ pc' = "m_transform"
  /\ UNCHANGED <<root, incoming, checkpoint, db, mode, new_files, pending, try_number, runs,
                 pre, outcome, crashed, recovering>>

\* run_transformations(con); an IntegrityError reaches `except`: ROLLBACK, raise
MainTransform ==
  /\ pc = "m_transform"
  /\ \E bare \in BareChoices(tx) :
       LET r == run_transformations(tx, bare) IN
       IF r.ok
       THEN /\ tx' = r.t
            /\ pc' = "m_commit"
            /\ UNCHANGED outcome
       ELSE EndRun("failed")
  /\ UNCHANGED <<root, incoming, checkpoint, db, mode, new_files, processed_paths, pending,
                 try_number, counters, runs, pre, crashed, recovering>>

\* mutant: COMMIT is not issued before save_checkpoint
MainCommit_NoCommit ==
  /\ pc = "m_commit"
  /\ pending' = processed_paths
  /\ pc' = "m_checkpoint"
  /\ UNCHANGED <<root, incoming, checkpoint, db, tx, mode, new_files, processed_paths,
                 try_number, counters, runs, pre, outcome, crashed, recovering>>

\* COMMIT, then save_checkpoint(processed_paths) is entered
MainCommit ==
  /\ pc = "m_commit"
  /\ db' = tx
  /\ pending' = processed_paths
  /\ pc' = "m_checkpoint"
  /\ UNCHANGED <<root, incoming, checkpoint, tx, mode, new_files, processed_paths, try_number,
                 counters, runs, pre, outcome, crashed, recovering>>

\* any other exception (a failing statement, a full disk) inside the try block
\* before COMMIT has succeeded: ROLLBACK, raise
MainRaise ==
  /\ pc \in {"m_ingest", "m_transform", "m_commit"}
  /\ EndRun("failed")
  /\ UNCHANGED <<root, incoming, checkpoint, db, mode, new_files, processed_paths, pending,
                 try_number, counters, runs, pre, crashed, recovering>>

\* ------------------------------------------------------------------------
\* save_checkpoint, called by main and by task_checkpoint
\* ------------------------------------------------------------------------
\* one iteration of `for p in processed_paths: f.write(p + "\n")`
CheckpointWrite ==
  /\ pc \in {"m_checkpoint", "d_checkpoint"}
  /\ pending # <<>>
  /\ checkpoint' = WritePath(checkpoint, Head(pending))
  /\ pending' = Tail(pending)
  /\ UNCHANGED <<root, incoming, db, tx, pc, mode, new_files, processed_paths, try_number,
                 counters, runs, pre, outcome, crashed, recovering>>

\* the loop is over; the metrics are printed and the run returns
CheckpointDone ==
  /\ pc \in {"m_checkpoint", "d_checkpoint"}
  /\ pending = <<>>
  /\ EndRun("ok")
  /\ UNCHANGED <<root, incoming, checkpoint, db, mode, new_files, processed_paths, pending,
                 try_number, counters, runs, pre, crashed, recovering>>

\* ------------------------------------------------------------------------
\* The DAG find_new_files >> ingest_raw >> transform >> save_checkpoint
\* ------------------------------------------------------------------------
\* A task that raised is run again while try_number <= retries; after that
\* the DAG run has failed and no downstream task is run.
TaskFailed(o) ==
  IF try_number <= retries
  THEN /\ try_number' = try_number + 1
       /\ UNCHANGED <<pc, outcome>>
       /\ tx' = db
  ELSE /\ try_number' = 1
       /\ EndRun(o)

\* task_find_new_files
DagStart ==
  /\ BeginRun("dag")
  /\ new_files' = find_new_files(root, checkpoint)
  /\ processed_paths' = <<>>
  /\ pc' = "d_ingest"
  /\ outcome' = "running"
  /\ try_number' = 1
  /\ UNCHANGED <<root, incoming, checkpoint, db, tx, pending, counters>>

\* task_ingest_raw: BEGIN, ingest_raw, COMMIT, push processed_paths
TaskIngest ==
  /\ pc = "d_ingest"
  /\ IF new_files = <<>>
     THEN /\ processed_paths' = <<>>
          /\ UNCHANGED <<db, tx, counters>>
     ELSE LET r == ingest_raw(db, root, new_files) IN
          /\ db' = r.t
          /\ tx' = r.t
          /\ processed_paths' = r.processed
          /\ counters' = r.counters
  /\ pc' = "d_transform"
  /\ try_number' = 1
  /\ UNCHANGED <<root, incoming, checkpoint, mode, new_files, pending, runs, pre, outcome,
                 crashed, recovering>>

\* task_ingest_raw raises inside its try block before COMMIT: ROLLBACK, raise
TaskIngestRaise ==
  /\ pc = "d_ingest"
  /\ new_files # <<>>
  /\ TaskFailed("failed")
  /\ UNCHANGED <<root, incoming, checkpoint, db, mode, new_files, processed_paths, pending,
                 counters, runs, pre, crashed, recovering>>

\* task_transform: BEGIN, run_transformations, COMMIT; an IntegrityError
\* reaches `except`: ROLLBACK, raise
TaskTransform ==
  /\ pc = "d_transform"
  /\ \E bare \in BareChoices(db) :
       LET r == run_transformations(db, bare) IN
       IF r.ok
       THEN /\ db' = r.t
            /\ tx' = r.t
            /\ pending' = processed_paths
            /\ pc' = "d_checkpoint"
            /\ try_number' = 1
            /\ UNCHANGED outcome
       ELSE /\ TaskFailed("failed")
            /\ UNCHANGED <<db, pending>>
  /\ UNCHANGED <<root, incoming, checkpoint, mode, new_files, processed_paths, counters, runs,
                 pre, crashed, recovering>>

\* task_transform raises for another reason before COMMIT: ROLLBACK, raise
TaskTransformRaise ==
  /\ pc = "d_transform"
  /\ TaskFailed("failed")
  /\ UNCHANGED <<root, incoming, checkpoint, db, mode, new_files, processed_paths, pending,
                 counters, runs, pre, crashed, recovering>>

\* task_checkpoint raises while save_checkpoint is writing (the lines written
\* so far stay in the file); the retry calls save_checkpoint with the whole
\* XCom list again
TaskCheckpointRaise ==
  /\ pc = "d_checkpoint"
  /\ processed_paths # <<>>
  /\ TaskFailed("checkpoint_failed")
  /\ pending' = IF try_number <= retries THEN processed_paths ELSE pending
  /\ crashed' = IF try_number <= retries THEN crashed
                ELSE [active |-> TRUE, db |-> db, written |-> checkpoint,
                      processed |-> processed_paths]
  /\ UNCHANGED <<root, incoming, checkpoint, db, mode, new_files, processed_paths, counters,
                 runs, pre, recovering>>

\* ------------------------------------------------------------------------
\* The process (main) or the whole deployment (DAG) stops: an open
\* transaction is lost, what was committed or written stays
\* ------------------------------------------------------------------------
Crash ==
  /\ pc # "idle"
  /\ EndRun("crashed")
  /\ crashed' = IF pc \in {"m_checkpoint", "d_checkpoint"}
                THEN [active |-> TRUE, db |-> db, written |-> checkpoint,
                      processed |-> processed_paths]
                ELSE NoCrash
  /\ try_number' = 1
  /\ UNCHANGED <<root, incoming, checkpoint, db, mode, new_files, processed_paths, pending,
                 counters, runs, pre, recovering>>

\* ------------------------------------------------------------------------
\* The environment drops a new file into the root between two runs
\* ------------------------------------------------------------------------
FileArrives ==
  /\ pc = "idle"
  /\ 0 < runs /\ runs < MaxRuns
  /\ DOMAIN incoming # {}
  /\ root' = root @@ incoming
  /\ incoming' = NoIncoming
  /\ outcome' = "none"
  /\ crashed' = [crashed EXCEPT !.active = FALSE]
  /\ UNCHANGED <<checkpoint, db, tx, pc, mode, new_files, processed_paths, pending,
                 try_number, counters, runs, pre, recovering>>

\* main run over the roots of RecordFileSystems
InitRecords ==
  /\ root \in RecordFileSystems
  /\ incoming = NoIncoming
  /\ InitRun

NextRecords ==
  \/ MainStart
  \/ MainIngest
  \/ MainTransform
  \/ MainCommit
  \/ CheckpointWrite
  \/ CheckpointDone

SpecRecords == InitRecords /\ [][NextRecords]_vars

Next ==
  \/ FileArrives
  \/ MainStart
  \/ MainIngest
  \/ MainTransform
  \/ MainCommit
  \/ MainRaise
  \/ CheckpointWrite
  \/ CheckpointDone
  \/ DagStart
  \/ TaskIngest
  \/ TaskIngestRaise
  \/ TaskTransform
  \/ TaskTransformRaise
  \/ TaskCheckpointRaise
  \/ Crash

Spec == Init /\ [][Next]_vars

\* ------------------------------------------------------------------------
\* Properties
\* ------------------------------------------------------------------------
Tables(t) == [raw_events |-> t.raw_events, users |-> t.users,
              documents |-> t.documents, events |-> t.events]

\* event_ids a file contributes to raw_events when ingested on its own
AdmittedIds(p) == RawIds(IngestFile(EmptyStore, root, p).t)

\* the rows of file p are in the committed store together with everything
\* normalization derives from them
Committed(p) ==
  /\ AdmittedIds(p) \subseteq RawIds(db)
  /\ AdmittedIds(p) \subseteq EventIds(db)
  /\ \A i \in 1..Len(db.raw_events) :
       db.raw_events[i].event_id \in AdmittedIds(p) =>
         /\ db.raw_events[i].user_id \in UserIds(db) \cup {Null}
         /\ db.raw_events[i].document_id \in DocumentIds(db) \cup {Null}

\* C1: a run in which ingestion or normalization raised leaves the store and
\* the checkpoint file as they were when the run started, whether it was
\* executed by main or by the DAG.
C1_Atomicity ==
  outcome = "failed" => db = pre.db /\ checkpoint = pre.checkpoint

\* C2: every path written to the checkpoint, and every path handed to
\* save_checkpoint, belongs to a file whose raw rows and their normalization
\* are committed; the checkpoint stage is only reached with both committed.
C2_CheckpointAfterCommit ==
  /\ \A i \in 1..Len(checkpoint) :
       \A p \in DOMAIN root : Resolve(p) = checkpoint[i] => Committed(p)
  /\ pc \in {"m_checkpoint", "d_checkpoint"} =>
       /\ tx = db
       /\ \A p \in DOMAIN root : Resolve(p) \in Range(processed_paths) => Committed(p)

\* a checkpointed file that put rows into the store
C2_Witness ==
  \E i \in 1..Len(checkpoint) : \E p \in DOMAIN root :
    /\ Resolve(p) = checkpoint[i]
    /\ AdmittedIds(p) # {}
    /\ db.documents # {}

\* C3: the run after a stop between commit and the end of the checkpoint
\* append re-discovers exactly the files whose entries were not written, and
\* ends with the tables of the stopped run's commit, without duplicate raw
\* rows, and with the checkpoint set an unstopped run would have left.
C3_CrashRecovery ==
  (recovering /\ outcome = "ok") =>
    /\ Range(new_files) = {p \in DOMAIN root : Resolve(p) \notin Range(crashed.written)}
    /\ Tables(db) = Tables(crashed.db)
    /\ Cardinality(RawIds(db)) = Len(db.raw_events)
    /\ Range(checkpoint) = Range(crashed.written) \cup Range(crashed.processed)

\* C4: a file whose path has been written to the checkpoint is not in the
\* new-file list of a later discovery.
C4_NoReselect ==
  pc \in {"m_ingest", "d_ingest"} =>
    \A p \in Range(new_files) : Resolve(p) \notin Range(checkpoint)

\* C5: no path is written to the checkpoint more than once, and a path is
\* written only when its file's rows are committed.
C5_AppendedOnce ==
  /\ \A i, j \in 1..Len(checkpoint) : checkpoint[i] = checkpoint[j] => i = j
  /\ \A i \in 1..Len(checkpoint) :
       \A p \in DOMAIN root :
         Resolve(p) = checkpoint[i] => AdmittedIds(p) \subseteq RawIds(db)

\* the tables the statements of the current stage work on
Cur == IF mode = "main" THEN tx ELSE db

\* C6: raw_events never holds two rows with one event_id; ingesting the same
\* files a second time changes nothing, and the re-ingestion after a stop
\* leaves raw_events as the stopped run committed it.
C6_IdempotentIngest ==
  /\ Cardinality(RawIds(db)) = Len(db.raw_events)
  /\ Cardinality(RawIds(tx)) = Len(tx.raw_events)
  /\ pc \in {"m_ingest", "d_ingest"} =>
       LET once == ingest_raw(Cur, root, new_files)
           twice == ingest_raw(once.t, root, new_files)
       IN /\ twice.t.raw_events = once.t.raw_events
          /\ Cardinality(RawIds(once.t)) = Len(once.t.raw_events)
  /\ (recovering /\ pc \in {"m_transform", "d_transform"}) =>
       Cur.raw_events = crashed.db.raw_events

\* a file with admitted rows has just been ingested for the second time
C6_Witness ==
  /\ recovering
  /\ pc \in {"m_transform", "d_transform"}
  /\ \E p \in Range(new_files) : AdmittedIds(p) # {}
  /\ Len(Cur.raw_events) > 0

\* C7: whatever raw_events holds when normalization starts, a second
\* run_transformations right after a successful first one succeeds and leaves
\* users, documents and events as the first left them.
C7_IdempotentNormalization ==
  pc \in {"m_transform", "d_transform"} =>
    \A b1 \in BareChoices(Cur) :
      LET r1 == run_transformations(Cur, b1) IN
      r1.ok =>
        \A b2 \in BareChoices(r1.t) :
          LET r2 == run_transformations(r1.t, b2) IN
          /\ r2.ok
          /\ Tables(r2.t) = Tables(r1.t)

\* the transform task has run again over an unchanged raw_events with several
\* candidate rows for a document's title and owner
C7_Witness ==
  /\ pc = "d_checkpoint"
  /\ new_files = <<>>
  /\ db.raw_events = pre.db.raw_events
  /\ pre.db.events # {}
  /\ \E d \in RawDocumentIds(db) : Cardinality(BareRows(db, d)) > 1
  /\ Tables(db) = Tables(pre.db)

\* C8: in the committed store a users row exists exactly for the user_ids
\* that raw_events rows carry.
C8_UserIffReferenced ==
  UserIds(db) = RawUserIds(db)

\* normalization of t with the bare rows `bare` would insert a document whose
\* owner has no users row
Dangling(t, bare) ==
  LET u == transform_users(t).t IN
  \E d \in RawDocumentIds(u) \ DocumentIds(u) :
    LET j == u.raw_events[bare[d]].raw_json
        o == Coalesce(<<j.document_owner_user_id, j.owner_user_id, j.ownerUserId>>)
    IN o # Null /\ o \notin UserIds(u)

C10_EventForeignKeys ==
  EventFKOk(db)

\* an event that references both a user and a document is committed
C10_Witness ==
  \E e \in db.events : e.user_id # Null /\ e.document_id # Null


\* ------------------------------------------------------------------------
\* The tables right after a normalization that succeeded
\* ------------------------------------------------------------------------
\* run_transformations has returned in this run and the checkpoint append has
\* not returned yet: Cur holds the tables it produced
AfterNormalization == pc \in {"m_commit", "m_checkpoint", "d_checkpoint"}

\* the non-null event_ts of the raw_events rows naming user u / document d
UserTs(t, u) ==
  {t.raw_events[i].event_ts : i \in {j \in 1..Len(t.raw_events) :
                                       t.raw_events[j].user_id = u}} \ {NullTs}
DocumentTs(t, d) ==
  {t.raw_events[i].event_ts : i \in {j \in 1..Len(t.raw_events) :
                                       t.raw_events[j].document_id = d}} \ {NullTs}

\* x is the earliest / the latest of T, unset when T is empty
IsEarliest(x, T) == IF T = {} THEN x = NullTs ELSE x \in T /\ \A y \in T : x <= y
IsLatest(x, T) == IF T = {} THEN x = NullTs ELSE x \in T /\ \A y \in T : x >= y

\* C11: after every successful normalization the event_ids of events are
\* exactly the event_ids of the raw_events rows with a non-null event_type,
\* and there is exactly one events row for each of them
C11_EventCompleteness ==
  AfterNormalization =>
    LET t == Cur IN
    /\ EventIds(t) = {t.raw_events[i].event_id :
                        i \in {j \in 1..Len(t.raw_events) :
                                 t.raw_events[j].event_type # Null}}
    /\ \A id \in EventIds(t) : Cardinality({e \in t.events : e.event_id = id}) = 1

\* a normalization that found events rows of an earlier run and added others
C11_Witness ==
  /\ AfterNormalization
  /\ EventIds(pre.db) # {}
  /\ EventIds(Cur) \ EventIds(pre.db) # {}

\* C12: after every normalization every user_id of raw_events has one users
\* row whose first_seen_ts is the minimum and whose last_seen_ts is the
\* maximum of the non-null event_ts of that user's rows, both unset when
\* there is none; events of a later run extend the range
C12_UserRange ==
  AfterNormalization =>
    LET t == Cur IN
    \A u \in RawUserIds(t) :
      /\ Cardinality({r \in t.users : r.user_id = u}) = 1
      /\ \A r \in t.users :
           r.user_id = u => /\ IsEarliest(r.first_seen_ts, UserTs(t, u))
                            /\ IsLatest(r.last_seen_ts, UserTs(t, u))

\* a user seen at one time T1 by an earlier run, and at a later T2 by this one
C12_Witness ==
  /\ AfterNormalization
  /\ \E r \in Cur.users : \E o \in pre.db.users :
       /\ o.user_id = r.user_id
       /\ o.first_seen_ts # NullTs
       /\ o.last_seen_ts = o.first_seen_ts
       /\ r.first_seen_ts = o.first_seen_ts
       /\ r.last_seen_ts > o.last_seen_ts

\* C13, as the specification states it: after every successful normalization,
\* over any sequence of runs, created_ts is the minimum and last_seen_ts the
\* maximum event_ts over all raw_events rows of the document
C13_DocumentRangeAllRows ==
  AfterNormalization =>
    LET t == Cur IN
    \A d \in t.documents :
      /\ IsEarliest(d.created_ts, DocumentTs(t, d.document_id))
      /\ IsLatest(d.last_seen_ts, DocumentTs(t, d.document_id))

\* C13, amended: last_seen_ts is the maximum event_ts over all raw_events
\* rows of the document; created_ts is the minimum over the rows that were
\* there when the documents row was created, and stays what it was once the
\* row exists
C13_DocumentRange ==
  AfterNormalization =>
    LET t == Cur IN
    \A d \in t.documents :
      /\ IsLatest(d.last_seen_ts, DocumentTs(t, d.document_id))
      /\ IF d.document_id \in DocumentIds(pre.db)
         THEN \E o \in pre.db.documents :
                o.document_id = d.document_id /\ o.created_ts = d.created_ts
         ELSE IsEarliest(d.created_ts, DocumentTs(t, d.document_id))

\* a document of an earlier run for which this run ingested an earlier event
C13_Witness ==
  /\ AfterNormalization
  /\ \E d \in Cur.documents :
       /\ d.document_id \in DocumentIds(pre.db)
       /\ d.created_ts # NullTs
       /\ ~IsEarliest(d.created_ts, DocumentTs(Cur, d.document_id))


\* C14: a step of the committed store keeps every documents row: its title,
\* owner_user_id and created_ts stay what they were, only last_seen_ts may
\* change, and there is still one row for its document_id
C14_DocumentFillOnce ==
  [][\A d \in db.documents :
       /\ \E n \in db'.documents :
            /\ n.document_id = d.document_id
            /\ n.title = d.title
            /\ n.owner_user_id = d.owner_user_id
            /\ n.created_ts = d.created_ts
       /\ Cardinality({n \in db'.documents : n.document_id = d.document_id}) = 1]_vars

\* a later normalization has moved the last_seen_ts of a document of an
\* earlier run, for which raw_events offers an event that is earlier than its
\* created_ts or names another owner
C14_Witness ==
  /\ AfterNormalization
  /\ \E d \in Cur.documents : \E o \in pre.db.documents :
       /\ o.document_id = d.document_id
       /\ d.last_seen_ts # o.last_seen_ts
       /\ d.created_ts = o.created_ts
       /\ d.owner_user_id = o.owner_user_id
       /\ \E i \in DocGroup(Cur, d.document_id) :
            Coalesce(<<Cur.raw_events[i].raw_json.document_owner_user_id,
                       Cur.raw_events[i].raw_json.owner_user_id,
                       Cur.raw_events[i].raw_json.ownerUserId>>) # d.owner_user_id

\* C15: a step of the committed store keeps every events row as it is,
\* event_pk included, keeps one row per event_id, and adds rows only for
\* event_ids that had no row
C15_EventsWriteOnce ==
  [][/\ db.events \subseteq db'.events
     /\ \A n \in db'.events \ db.events : n.event_id \notin EventIds(db)
     /\ Cardinality(EventIds(db')) = Cardinality(db'.events)]_vars

\* a normalization re-run over the events of an earlier run: their inserts
\* were ignored, and a row of this run was added
C15_Witness ==
  /\ AfterNormalization
  /\ pre.db.events # {}
  /\ pre.db.events \subseteq Cur.events
  /\ Cur.events # pre.db.events
  /\ Cur.seq - pre.db.seq > Cardinality(Cur.events \ pre.db.events)


\* ------------------------------------------------------------------------
\* Properties of the admission of one record (SpecRecords)
\* ------------------------------------------------------------------------
\* the probe record of the root
Probe == root["a.json"].items[1]

\* a JSON value that is missing, null, empty or made of white space
Blank(v) == v \in {Null, "", " "}

\* C16: a record whose event_id is missing, empty or white space adds no
\* row and counts as skipped-missing-id only; a record with an event_id whose
\* event_type is missing or empty adds no row and counts as
\* skipped-missing-type only; the record after it is ingested and the run
\* does not fail
C16_MissingFieldAdmission ==
  LET noId == Blank(Probe.event_id)
      noType == ~Blank(Probe.event_id) /\ Blank(Probe.event_type)
  IN
  /\ outcome # "failed"
  /\ (noId \/ noType) =>
       /\ \A t \in {db, tx} :
            /\ RawIds(t) \subseteq {"e2"}
            /\ EventIds(t) \subseteq {"e2"}
            /\ UserIds(t) \subseteq {"u1"}
            /\ t.documents = {}
       /\ pc \in {"m_transform", "m_commit", "m_checkpoint"} =>
            /\ counters = <<[inserted_rows |-> 1,
                             skipped_missing_id |-> IF noId THEN 1 ELSE 0,
                             skipped_missing_type |-> IF noType THEN 1 ELSE 0]>>
            /\ RawIds(tx) = {"e2"}
       /\ (pc = "idle" /\ outcome = "ok") => RawIds(db) = {"e2"} /\ EventIds(db) = {"e2"}

\* a run has committed a file whose first record has a white-space event_id
\* and a usable event_type
C16_Witness ==
  /\ pc = "m_checkpoint"
  /\ Probe.event_id = " "
  /\ Probe.event_type = "Edit"
  /\ counters[1].skipped_missing_id = 1
  /\ RawIds(db) = {"e2"}

\* the first alias present in the record, null when none is
FirstPresentTs(j) ==
  IF j.timestamp # NullTs THEN j.timestamp
  ELSE IF j.event_timestamp # NullTs THEN j.event_timestamp
  ELSE IF j.ts # NullTs THEN j.ts
  ELSE j.time

\* the first alias whose value is truthy, null when none is
FirstTruthyTs(j) ==
  IF j.timestamp \notin {NullTs, EmptyTs} THEN j.timestamp
  ELSE IF j.event_timestamp \notin {NullTs, EmptyTs} THEN j.event_timestamp
  ELSE IF j.ts \notin {NullTs, EmptyTs} THEN j.ts
  ELSE IF j.time \notin {NullTs, EmptyTs} THEN j.time
  ELSE NullTs

\* C19, as the specification states it: event_ts is the value of the first of
\* timestamp, event_timestamp, ts, time that is present in the record, and
\* null only when none is present
C19_FirstPresentAlias ==
  \A t \in {db, tx} : \A i \in 1..Len(t.raw_events) :
    t.raw_events[i].event_ts = FirstPresentTs(t.raw_events[i].raw_json)

\* C19, amended: event_ts is the value of the first of timestamp,
\* event_timestamp, ts, time whose value is truthy (present, not null, not
\* empty, not zero), and null when no alias has such a value
C19_FirstTruthyAlias ==
  \A t \in {db, tx} : \A i \in 1..Len(t.raw_events) :
    t.raw_events[i].event_ts = FirstTruthyTs(t.raw_events[i].raw_json)

\* a committed row whose record has an empty timestamp before a usable ts
\* and another usable time after it
C19_Witness ==
  \E i \in 1..Len(db.raw_events) :
    LET j == db.raw_events[i].raw_json IN
    /\ j.timestamp = EmptyTs
    /\ j.event_timestamp = NullTs
    /\ TruthyTs(j.ts)
    /\ TruthyTs(j.time)
    /\ j.ts # j.time
    /\ db.raw_events[i].event_ts = j.ts


\* ------------------------------------------------------------------------
\* Properties of the files of one run (Spec)
\* ------------------------------------------------------------------------
\* ingest_raw has returned in this run
AfterIngest == pc \in {"m_transform", "m_commit", "m_checkpoint", "d_transform",
                       "d_checkpoint"}

\* the content of file p is not a JSON document, or is neither object nor array
Malformed(p) == root[p].kind \in {"invalid", "scalar"}

\* C17: a file that is not valid JSON, or neither an object nor an array,
\* yields no raw_events row, the files after it in the run are ingested, its
\* path is in the list ingestion returns, it is in the checkpoint when the run
\* has ended well, and a later discovery does not offer it again
C17_MalformedFileTolerance ==
  \A p \in Range(new_files) :
    Malformed(p) =>
      /\ \A i \in 1..Len(Cur.raw_events) : Cur.raw_events[i].source_file # Resolve(p)
      /\ AfterIngest =>
           /\ Resolve(p) \in Range(processed_paths)
           /\ Len(processed_paths) = Len(new_files)
           /\ \A q \in Range(new_files) : AdmittedIds(q) \subseteq RawIds(Cur)
      /\ (pc = "idle" /\ outcome = "ok") => Resolve(p) \in Range(checkpoint)
      /\ pc \in {"m_ingest", "d_ingest"} => Resolve(p) \notin Range(checkpoint)

\* the records of the run in processing order: record i of file k of new_files
RecordAt(k, i) == read_event_file(root[new_files[k]])[i]
Positions ==
  UNION {{<<k, i>> : i \in 1..Len(read_event_file(root[new_files[k]]))} :
           k \in 1..Len(new_files)}
Before(a, b) == a[1] < b[1] \/ (a[1] = b[1] /\ a[2] < b[2])

\* the record at position a passes the checks on event_id and event_type
Admitted(a) ==
  /\ ~Blank(RecordAt(a[1], a[2]).event_id)
  /\ ~Blank(RecordAt(a[1], a[2]).event_type)

\* the positions of the admitted records of the run that carry event_id id
PositionsOf(id) ==
  {a \in Positions : Admitted(a) /\ Strip(RecordAt(a[1], a[2]).event_id) = id}

\* the first of them
FirstOf(id) == CHOOSE a \in PositionsOf(id) : \A b \in PositionsOf(id) : a = b \/ Before(a, b)

\* position of listed path p in the sorted listing
ListedAt(p) == CHOOSE n \in 1..Len(ListedPaths) : ListedPaths[n] = p

\* C18: the files of a run are ingested in sorted order and the records of a
\* file in their order; of several records with one event_id, in a file,
\* across the files of a run or across runs, the first one processed gives the
\* raw_events row its payload, source_file and derived fields; the rows that
\* were committed when the run began stay as they are, at their place
C18_FirstOccurrenceWins ==
  /\ \A t \in {db, tx} :
       /\ Len(pre.db.raw_events) <= Len(t.raw_events)
       /\ SubSeq(t.raw_events, 1, Len(pre.db.raw_events)) = pre.db.raw_events
  /\ \A k, l \in 1..Len(new_files) :
       k < l => ListedAt(new_files[k]) < ListedAt(new_files[l])
  /\ AfterIngest =>
       LET old == Len(pre.db.raw_events) IN
       /\ {Cur.raw_events[n].event_id : n \in (old + 1)..Len(Cur.raw_events)}
            = {Strip(RecordAt(a[1], a[2]).event_id) : a \in {b \in Positions : Admitted(b)}}
                \ RawIds(pre.db)
       /\ \A n \in (old + 1)..Len(Cur.raw_events) :
            LET r == Cur.raw_events[n]
                a == FirstOf(r.event_id)
            IN /\ r.raw_json = RecordAt(a[1], a[2])
               /\ r.source_file = Resolve(new_files[a[1]])
               /\ r.event_type = Lower(Strip(r.raw_json.event_type))
               /\ r.event_ts = FirstTruthyTs(r.raw_json)
               /\ \A m \in (old + 1)..(n - 1) :
                    Before(FirstOf(Cur.raw_events[m].event_id), a)

\* a later run has ingested a file that repeats, with another payload, an
\* event_id committed by an earlier run, next to an event_id that is new
C18_Witness ==
  /\ AfterNormalization
  /\ Len(Cur.raw_events) > Len(pre.db.raw_events)
  /\ \E a \in Positions : \E n \in 1..Len(pre.db.raw_events) :
       /\ Admitted(a)
       /\ Strip(RecordAt(a[1], a[2]).event_id) = pre.db.raw_events[n].event_id
       /\ RecordAt(a[1], a[2]) # pre.db.raw_events[n].raw_json


\* C20: whatever the files hold, the normalization of a run can succeed, so
\* that no content makes every run fail, and after a run that ended well
\* every file of the unchanged root is in the checkpoint: discovery returns
\* an empty list
C20_Progress ==
  /\ pc \in {"m_transform", "d_transform"} =>
       \E bare \in BareChoices(Cur) : run_transformations(Cur, bare).ok
  /\ (pc = "idle" /\ outcome = "ok") => find_new_files(root, checkpoint) = <<>>

====
